---- MODULE Spec2Model ----
(***************************************************************************)
(* Model of the SpaceTraveling blog front-end:                             *)
(*   - the Home listing (posts, nextPage, handleNextPosts),                *)
(*   - the Post page's reading-time computation (totalWords, readTime),    *)
(*   - the sibling pagination of the Post page's getStaticProps.           *)
(***************************************************************************)
EXTENDS Integers, Sequences, FiniteSets, TLC

\* ------------------------------------------------------------------ bounds
\* Number of cursors (further pages) the content API can hand out.
MaxCursor == 2

\* Number of clicks on "Carregar mais posts" in one behaviour.
MaxCalls == 3

\* ------------------------------------------------------------ JS values
\* null (a falsy next_page).
Null == 0

\* undefined (the value of a property that is missing).
Undefined == -1

\* ---------------------------------------------------- Home: the listing
VARIABLES
    postsPagination,  \* the prop built by the listing's getStaticProps
    backend,          \* the content API: cursor -> {results, next_page}
    posts,            \* useState: the stored summaries
    nextPage,         \* useState: the stored cursor
    calls,            \* handleNextPosts invocations: their closure and status
    fetched,          \* history: raw results of the fetches that were appended
    overlap           \* history: a click happened while a call was suspended

homeVars == <<postsPagination, backend, posts, nextPage, calls, fetched, overlap>>

\* --------------------------------------------- Post: the reading time
VARIABLES
    post,        \* the post prop of the Post component
    totalWords,  \* the array the reduce builds, or undefined
    readTime,    \* Math.ceil(totalWords?.length / 200), possibly NaN
    label,       \* what the clock span renders
    postPc       \* "props", "rendered" or "threw"

postVars == <<post, totalWords, readTime, label, postPc>>

\* ------------------------------------- Post: the sibling pagination
VARIABLES
    repository,  \* uids of the documents of type posts, by ascending
                 \* first_publication_date
    slug,        \* params.slug
    response,    \* the result of getByUID
    nextResults, \* results of the ascending query
    prevResults, \* results of the descending query
    pagination,  \* the pagination prop
    navPc        \* position in getStaticProps

navVars == <<repository, slug, response, nextResults, prevResults, pagination, navPc>>

vars == <<homeVars, postVars, navVars>>

\* A document of type posts as the content API returns it.
Doc(u) ==
    [ id |-> u, uid |-> u, first_publication_date |-> u, hasData |-> TRUE,
      data |-> [title |-> 10 * u, subtitle |-> 10 * u + 1,
                author |-> 10 * u + 2] ]

\* The same document with its data field missing.
WithoutData(d) ==
    [d EXCEPT !.hasData = FALSE,
              !.data = [title |-> Undefined, subtitle |-> Undefined,
                        author |-> Undefined]]

\* The same document with data present and data.title missing.
WithoutTitle(d) == [d EXCEPT !.data.title = Undefined]

\* Pages (sequences of uids) the content API may serve; uids may repeat
\* between pages.
PageSet == { <<1>>, <<2, 1>>, <<3>> }

Docs(page) == [k \in 1..Len(page) |-> Doc(page[k])]

\* The object built from one result by the map callbacks.
MapPost(result) ==
    [ uid |-> result.uid,
      first_publication_date |-> result.first_publication_date,
      data |-> [ title |-> result.data.title,
                 subtitle |-> result.data.subtitle,
                 author |-> result.data.author ] ]

\* postsResponse.results.map(...)
addNewPosts(results) == [k \in 1..Len(results) |-> MapPost(results[k])]

\* ------------------------------------------------ responses of fetch()
\* fetch(nextPage).then(r => r.json()) resolved with the API's page.
WellFormed(c) ==
    [ rejects |-> FALSE, hasResults |-> TRUE,
      results |-> backend[c].results, next_page |-> backend[c].next_page ]

\* The transport rejects, or the body is not JSON.
Rejected ==
    [ rejects |-> TRUE, hasResults |-> FALSE, results |-> <<>>,
      next_page |-> Null ]

\* A JSON body without a results array.
NoResults(c) == [WellFormed(c) EXCEPT !.hasResults = FALSE, !.results = <<>>]

\* A JSON body whose last result has no data field.
NoData(c) ==
    LET r == backend[c].results
    IN  [WellFormed(c) EXCEPT
            !.results = [r EXCEPT ![Len(r)] = WithoutData(r[Len(r)])]]

\* A JSON body whose first result has data but no title.
NoTitle(c) ==
    LET r == backend[c].results
    IN  [WellFormed(c) EXCEPT !.results = [r EXCEPT ![1] = WithoutTitle(r[1])]]

\* Everything a fetch of cursor c may come back with.
Responses(c) ==
    IF c = Null THEN {Rejected}
    ELSE {WellFormed(c), Rejected, NoResults(c), NoData(c), NoTitle(c)}

\* What a fetch of cursor c comes back with when the API answers as it is
\* specified to, or the transport fails.
FixedResponses(c) ==
    IF c = Null THEN {Rejected} ELSE {WellFormed(c), Rejected}

\* ------------------------------------------------------ handleNextPosts
\* A variant of Throws in which a result without data does not throw (as
\* with post.data?.title).
ThrowsLenient(resp) == resp.rejects \/ ~resp.hasResults

\* The await or the map callback throws: the promise of handleNextPosts
\* rejects before any setState.
Throws(resp) ==
    \/ resp.rejects
    \/ ~resp.hasResults
    \/ \E k \in 1..Len(resp.results) : ~resp.results[k].hasData

\* A variant of NewPosts that puts the new posts first.
NewPostsPrepend(closurePosts, storedPosts, results) ==
    addNewPosts(results) \o closurePosts

\* A variant of NewPosts that appends to the posts stored at completion time
\* (as with setPosts(prev => [...prev, ...addNewPosts])).
NewPostsFromStored(closurePosts, storedPosts, results) ==
    storedPosts \o addNewPosts(results)

\* The argument of setPosts: the closure's posts, then the new ones.
NewPosts(closurePosts, storedPosts, results) ==
    closurePosts \o addNewPosts(results)

\* A variant of LoadMoreOffered that renders the button unconditionally.
LoadMoreAlways(np) == TRUE

\* {nextPage && <button onClick={handleNextPosts}>}
LoadMoreOffered(np) == np # Null

\* A click on the button: handleNextPosts runs to its await, with the posts
\* and nextPage of the render the button belongs to, and issues the fetch.
Click ==
    /\ LoadMoreOffered(nextPage)
    /\ Len(calls) < MaxCalls
    /\ calls' = Append(calls, [ posts |-> posts, nextPage |-> nextPage,
                                status |-> "pending", response |-> Rejected ])
    /\ overlap' = (overlap \/ \E i \in 1..Len(calls) : calls[i].status = "pending")
    /\ UNCHANGED <<postsPagination, backend, posts, nextPage, fetched>>
    /\ UNCHANGED <<postVars, navVars>>

\* The fetch of call i settles with resp and handleNextPosts runs to its end.
Complete(i, resp) ==
    /\ calls[i].status = "pending"
    /\ IF Throws(resp)
       THEN /\ calls' = [calls EXCEPT ![i].status = "rejected",
                                      ![i].response = resp]
            /\ UNCHANGED <<posts, nextPage, fetched>>
       ELSE /\ calls' = [calls EXCEPT ![i].status = "resolved",
                                      ![i].response = resp]
            /\ posts' = NewPosts(calls[i].posts, posts, resp.results)
            /\ nextPage' = resp.next_page
            /\ fetched' = fetched \o resp.results
    /\ UNCHANGED <<postsPagination, backend, overlap>>
    /\ UNCHANGED <<postVars, navVars>>

\* The listing's getStaticProps against an API holding n further pages,
\* then the first render of Home.
InitHome ==
    \E n \in 0..MaxCursor, pg \in [0..MaxCursor -> PageSet] :
        /\ \A c \in (n + 1)..MaxCursor : pg[c] = <<1>>
        /\ backend = [c \in 1..MaxCursor |->
                        [ results |-> Docs(pg[c]),
                          next_page |-> IF c < n THEN c + 1 ELSE Null ]]
        /\ postsPagination =
              [ next_page |-> IF n > 0 THEN 1 ELSE Null,
                results |-> addNewPosts(Docs(pg[0])) ]
        /\ posts = postsPagination.results
        /\ nextPage = postsPagination.next_page
        /\ calls = <<>>
        /\ fetched = <<>>
        /\ overlap = FALSE

\* Home before it is mounted.
IdleHome ==
    /\ backend = <<>>
    /\ postsPagination = [next_page |-> Null, results |-> <<>>]
    /\ posts = <<>>
    /\ nextPage = Null
    /\ calls = <<>>
    /\ fetched = <<>>
    /\ overlap = FALSE

FetchSettles ==
    \E i \in 1..Len(calls) : \E resp \in Responses(calls[i].nextPage) :
        Complete(i, resp)

FetchSettlesFixed ==
    \E i \in 1..Len(calls) : \E resp \in FixedResponses(calls[i].nextPage) :
        Complete(i, resp)

\* ------------------------------------------------- Post: reading time
\* Number of content blocks of a post.
MaxBlocks == 3

\* The divisor of readTime.
WordsPerMinute == 200

Repeat(x, n) == [k \in 1..n |-> x]

Span(t) == [text |-> t]

Word == <<"w">>

\* Content blocks a post is made of. Strings are sequences of characters.
BlockSet ==
    { [heading |-> <<>>, body |-> <<Span(Word)>>],
      [heading |-> <<"A", " ", "B">>,
       body |-> <<Span(<<"C", " ", "D", " ", "E">>)>>],
      [heading |-> <<>>, body |-> <<>>],
      [heading |-> <<"A">>, body |-> <<Span(<<>>), Span(<<" ">>)>>],
      [heading |-> <<>>, body |-> Repeat(Span(Word), WordsPerMinute \div 2)],
      [heading |-> <<>>, body |-> Repeat(Span(Word), WordsPerMinute + 1)] }

Contents == UNION { [1..n -> BlockSet] : n \in 0..MaxBlocks }

\* The post prop: undefined (fallback render), without data, with data but
\* without content, or with a content sequence.
PostInputs ==
    { [defined |-> FALSE, hasData |-> FALSE, hasContent |-> FALSE, content |-> <<>>],
      [defined |-> TRUE, hasData |-> FALSE, hasContent |-> FALSE, content |-> <<>>],
      [defined |-> TRUE, hasData |-> TRUE, hasContent |-> FALSE, content |-> <<>>] }
    \cup { [defined |-> TRUE, hasData |-> TRUE, hasContent |-> TRUE, content |-> c] :
            c \in Contents }

\* String.prototype.split(' '): the pieces between the spaces, empty ones
\* kept. The pieces of a string are those of its two halves, the last piece
\* of the first half running on into the first piece of the second.
RECURSIVE SplitRange(_, _, _)
SplitRange(s, lo, hi) ==
    IF lo > hi THEN << <<>> >>
    ELSE IF lo = hi THEN (IF s[lo] = " " THEN << <<>>, <<>> >> ELSE << <<s[lo]>> >>)
    ELSE LET mid == (lo + hi) \div 2
             l == SplitRange(s, lo, mid)
             r == SplitRange(s, mid + 1, hi)
         IN  SubSeq(l, 1, Len(l) - 1) \o << l[Len(l)] \o r[1] >> \o Tail(r)

\* A variant of Split that filters the empty pieces out.
SplitDroppingEmpty(s) == SelectSeq(SplitRange(s, 1, Len(s)), LAMBDA t : t # <<>>)

Split(s) == SplitRange(s, 1, Len(s))

\* Array.prototype.join(sep)
RECURSIVE JoinRange(_, _, _, _)
JoinRange(texts, sep, lo, hi) ==
    IF lo > hi THEN <<>>
    ELSE IF lo = hi THEN texts[lo]
    ELSE LET mid == (lo + hi) \div 2
         IN  JoinRange(texts, sep, lo, mid) \o sep \o JoinRange(texts, sep, mid + 1, hi)

Join(texts, sep) == JoinRange(texts, sep, 1, Len(texts))

\* RichText.asText(body): the spans' texts joined by a space.
asText(body) == Join([k \in 1..Len(body) |-> body[k].text], <<" ">>)

\* A variant of Reducer that returns wordsContent instead of total.
ReducerKeepingLast(total, content) == Split(asText(content.body))

\* The reduce callback.
Reducer(total, content) ==
    LET withHeading == IF content.heading # <<>>
                       THEN total \o Split(content.heading)
                       ELSE total
        wordsContent == Split(asText(content.body))
    IN  withHeading \o wordsContent

\* content.reduce(callback, [])
RECURSIVE ReduceFrom(_, _, _)
ReduceFrom(content, k, total) ==
    IF k > Len(content) THEN total
    ELSE ReduceFrom(content, k + 1, Reducer(total, content[k]))

\* post?.data?.content.reduce(...) reads .reduce of undefined.
ReduceThrows(p) == p.defined /\ p.hasData /\ ~p.hasContent

\* post?.data?.content.reduce(...), when it does not throw.
TotalWordsOf(p) ==
    IF ~p.defined \/ ~p.hasData
    THEN [defined |-> FALSE, words |-> <<>>]
    ELSE [defined |-> TRUE, words |-> ReduceFrom(p.content, 1, <<>>)]

\* Math.ceil(n / d) on non-negative integers.
MathCeilDiv(n, d) == IF n % d = 0 THEN n \div d ELSE n \div d + 1

\* Math.ceil(totalWords?.length / 200)
NaN == [isNaN |-> TRUE, value |-> 0]

ReadTimeOf(tw) ==
    IF ~tw.defined THEN NaN
    ELSE [isNaN |-> FALSE, value |-> MathCeilDiv(Len(tw.words), WordsPerMinute)]

\* {readTime ? `${readTime} min` : 'Tempo de leitura'}
LabelOf(rt) ==
    IF ~rt.isNaN /\ rt.value # 0
    THEN [kind |-> "min", minutes |-> rt.value]
    ELSE [kind |-> "Tempo de leitura", minutes |-> 0]

\* The Post component is about to render the post prop it was given.
InitPost ==
    /\ post \in PostInputs
    /\ totalWords = [defined |-> FALSE, words |-> <<>>]
    /\ readTime = NaN
    /\ label = [kind |-> "none", minutes |-> 0]
    /\ postPc = "props"

IdlePost ==
    /\ post = [defined |-> FALSE, hasData |-> FALSE, hasContent |-> FALSE,
               content |-> <<>>]
    /\ totalWords = [defined |-> FALSE, words |-> <<>>]
    /\ readTime = NaN
    /\ label = [kind |-> "none", minutes |-> 0]
    /\ postPc = "idle"

\* One render of Post that completes.
PostRender ==
    /\ postPc = "props"
    /\ ~ReduceThrows(post)
    /\ totalWords' = TotalWordsOf(post)
    /\ readTime' = ReadTimeOf(totalWords')
    /\ label' = LabelOf(readTime')
    /\ postPc' = "rendered"
    /\ UNCHANGED <<post, homeVars, navVars>>

\* One render of Post that raises a TypeError in the reduce expression.
PostRenderThrows ==
    /\ postPc = "props"
    /\ ReduceThrows(post)
    /\ postPc' = "threw"
    /\ UNCHANGED <<post, totalWords, readTime, label, homeVars, navVars>>

\* ------------------------------------------- Post: sibling pagination
\* Number of documents of type posts.
MaxDocs == 3

\* The repository's documents by ascending first_publication_date.
Repositories ==
    { r \in UNION { [1..n -> 1..MaxDocs] : n \in 0..MaxDocs } :
        \A i, j \in 1..Len(r) : i # j => r[i] # r[j] }

Reverse(list) == [k \in 1..Len(list) |-> list[Len(list) + 1 - k]]

\* orderings: '[document.first_publication_date]' or '... desc]'
Ordered(docs, ordering) == IF ordering = "desc" THEN Reverse(docs) ELSE docs

\* A variant of After in which the list wraps around to its beginning.
AfterWrappingAround(list, id) ==
    IF \E k \in 1..Len(list) : list[k] = id
    THEN LET k == CHOOSE k \in 1..Len(list) : list[k] = id
         IN  SubSeq(list, k + 1, Len(list)) \o SubSeq(list, 1, k - 1)
    ELSE list

\* after: id - the documents that follow document id in the ordered list.
After(list, id) ==
    IF \E k \in 1..Len(list) : list[k] = id
    THEN LET k == CHOOSE k \in 1..Len(list) : list[k] = id
         IN  SubSeq(list, k + 1, Len(list))
    ELSE list

\* prismic.query(type posts, {pageSize, after, orderings}).results
Query(docs, ordering, after, pageSize) ==
    LET found == After(Ordered(docs, ordering), after)
        n == IF Len(found) < pageSize THEN Len(found) ELSE pageSize
    IN  [k \in 1..n |-> Doc(found[k])]

NoDocument == [defined |-> FALSE, doc |-> Doc(Null)]

\* prismic.getByUID('posts', slug)
getByUID(docs, uid) ==
    IF \E k \in 1..Len(docs) : docs[k] = uid
    THEN [defined |-> TRUE, doc |-> Doc(uid)]
    ELSE NoDocument

NoSide == [present |-> FALSE, title |-> Null, href |-> <<>>]

\* nextPage ? {title, href} : null
PaginationSide(results) ==
    IF Len(results) > 0
    THEN [ present |-> TRUE, title |-> results[1].data.title,
           href |-> <<"/post/", results[1].uid>> ]
    ELSE NoSide

InitNav ==
    /\ repository \in Repositories
    /\ slug \in 1..MaxDocs
    /\ response = NoDocument
    /\ nextResults = <<>>
    /\ prevResults = <<>>
    /\ pagination = [nextPage |-> NoSide, prevPage |-> NoSide]
    /\ navPc = "getByUID"

IdleNav ==
    /\ repository = <<>>
    /\ slug = Null
    /\ response = NoDocument
    /\ nextResults = <<>>
    /\ prevResults = <<>>
    /\ pagination = [nextPage |-> NoSide, prevPage |-> NoSide]
    /\ navPc = "idle"

\* await prismic.getByUID(...)
NavGetByUID ==
    /\ navPc = "getByUID"
    /\ response' = getByUID(repository, slug)
    /\ navPc' = "queryNext"
    /\ UNCHANGED <<repository, slug, nextResults, prevResults, pagination>>
    /\ UNCHANGED <<homeVars, postVars>>

\* response.id of an undefined response raises a TypeError.
NavThrows ==
    /\ navPc = "queryNext"
    /\ ~response.defined
    /\ navPc' = "threw"
    /\ UNCHANGED <<repository, slug, response, nextResults, prevResults, pagination>>
    /\ UNCHANGED <<homeVars, postVars>>

\* The ascending query and the destructuring of its results.
NavQueryNext ==
    /\ navPc = "queryNext"
    /\ response.defined
    /\ nextResults' = Query(repository, "asc", response.doc.id, 1)
    /\ navPc' = "queryPrev"
    /\ UNCHANGED <<repository, slug, response, prevResults, pagination>>
    /\ UNCHANGED <<homeVars, postVars>>

\* The descending query and the destructuring of its results.
NavQueryPrev ==
    /\ navPc = "queryPrev"
    /\ prevResults' = Query(repository, "desc", response.doc.id, 1)
    /\ navPc' = "props"
    /\ UNCHANGED <<repository, slug, response, nextResults, pagination>>
    /\ UNCHANGED <<homeVars, postVars>>

\* const pagination = {nextPage: ..., prevPage: ...} and the return.
NavBuildProps ==
    /\ navPc = "props"
    /\ pagination' = [ nextPage |-> PaginationSide(nextResults),
                       prevPage |-> PaginationSide(prevResults) ]
    /\ navPc' = "done"
    /\ UNCHANGED <<repository, slug, response, nextResults, prevResults>>
    /\ UNCHANGED <<homeVars, postVars>>

\* ------------------------------------------------------ specifications
Init == InitHome /\ IdlePost /\ IdleNav

Next == Click \/ FetchSettles

\* The listing against an API whose responses may be malformed.
Spec == Init /\ [][Next]_vars

NextFixed == Click \/ FetchSettlesFixed

\* The listing against an API that serves its fixed pages, or fails to answer.
SpecFixed == Init /\ [][NextFixed]_vars

NextPost == PostRender \/ PostRenderThrows

InitPostPage == IdleHome /\ InitPost /\ IdleNav

\* One render of the Post component for every shape of its post prop.
SpecPost == InitPostPage /\ [][NextPost]_vars

NextPagination ==
    NavGetByUID \/ NavThrows \/ NavQueryNext \/ NavQueryPrev \/ NavBuildProps

InitPagination == IdleHome /\ IdlePost /\ InitNav

\* One run of the Post page's getStaticProps for every repository and slug.
SpecPagination == InitPagination /\ [][NextPagination]_vars

\* ------------------------------------------------------------- claims
IsPrefix(a, b) == Len(a) <= Len(b) /\ SubSeq(b, 1, Len(a)) = a

\* A fetch that failed: the transport rejected, or the body has no results
\* array, or one of its results has no data field.
FetchFailed(resp) ==
    \/ resp.rejects
    \/ ~resp.hasResults
    \/ \E k \in 1..Len(resp.results) : ~resp.results[k].hasData

\* C1: when the fetch of a handleNextPosts call fails (transport rejection,
\* no results array, a result without data), the step that settles the call
\* leaves the stored posts exactly as they were.
C1_FailedFetchKeepsPosts ==
    [][\A i \in 1..Len(calls) :
          ( /\ calls[i].status = "pending"
            /\ calls'[i].status # "pending"
            /\ FetchFailed(calls'[i].response) ) => posts' = posts]_vars

\* C1 witness: a call was rejected on a body whose result lacks data, after
\* an earlier call had already appended a page.
C1_Witness ==
    \E i \in 1..Len(calls) :
        /\ calls[i].status = "rejected"
        /\ ~calls[i].response.rejects
        /\ calls[i].response.hasResults
        /\ Len(posts) > Len(postsPagination.results)

\* C2: as long as no click happened while another call was suspended, the
\* stored posts are the initial page followed by the fetched pages in fetch
\* order, duplicates included.
C2_SequentialCallsAppendInOrder ==
    ~overlap => posts = postsPagination.results \o addNewPosts(fetched)

\* C2 witness: two calls resolved one after the other and the stored posts
\* hold the same uid twice.
C2_Witness ==
    /\ ~overlap
    /\ Cardinality({i \in 1..Len(calls) : calls[i].status = "resolved"}) >= 2
    /\ \E a, b \in 1..Len(posts) : a < b /\ posts[a].uid = posts[b].uid

\* C3: no two fetches for the same cursor are in flight at once.
C3_SingleFlight ==
    \A i, j \in 1..Len(calls) :
        (i # j /\ calls[i].status = "pending" /\ calls[j].status = "pending")
            => calls[i].nextPage # calls[j].nextPage

\* C4: in every step the stored posts before the step are a prefix of the
\* stored posts after it.
C4_AppendOnly == [][IsPrefix(posts, posts')]_vars

\* C5: a handleNextPosts call is started only while the stored cursor is
\* present, and the fetch it issues uses that non-null cursor.
C5_NoLoadMoreOnNullCursor ==
    [][Len(calls') > Len(calls) =>
          /\ nextPage # Null
          /\ calls'[Len(calls')].nextPage = nextPage]_vars

\* C5 witness: a call resolved with a null next_page, so the button is gone
\* although further clicks are within the bound.
C5_Witness ==
    /\ nextPage = Null
    /\ Len(calls) >= 1
    /\ Len(calls) < MaxCalls
    /\ \A i \in 1..Len(calls) : calls[i].status = "resolved"
    /\ ~ENABLED Click

SpaceCount(s) == Cardinality({i \in 1..Len(s) : s[i] = " "})

\* The tokens one block contributes, by the statement of the claim.
BlockTokens(b) ==
    (IF b.heading # <<>> THEN SpaceCount(b.heading) + 1 ELSE 0)
        + SpaceCount(asText(b.body)) + 1

RECURSIVE ExpectedTotal(_)
ExpectedTotal(content) ==
    IF content = <<>> THEN 0
    ELSE ExpectedTotal(SubSeq(content, 1, Len(content) - 1))
            + BlockTokens(content[Len(content)])

\* C6: the reading time of a content sequence is ceiling(total / 200), total
\* being the sum over the blocks of the heading's tokens (a non-empty heading
\* only) and the body's tokens, empty tokens kept; 5 tokens give 1 minute and
\* 201 tokens give 2.
C6_ReadingTimeIsCeiling ==
    (postPc = "rendered" /\ post.hasContent) =>
        LET total == ExpectedTotal(post.content)
        IN  /\ totalWords.defined
            /\ Len(totalWords.words) = total
            /\ ~readTime.isNaN
            /\ readTime.value = (total + WordsPerMinute - 1) \div WordsPerMinute
            /\ (total = 5 => readTime.value = 1)
            /\ (total = WordsPerMinute + 1 => readTime.value = 2)

\* C6 witness: three blocks without headings holding 201 one-word spans
\* between them, rendered as 2 minutes.
C6_Witness ==
    /\ postPc = "rendered"
    /\ Len(post.content) = 3
    /\ \A k \in 1..3 : post.content[k].heading = <<>>
    /\ Len(totalWords.words) = WordsPerMinute + 1
    /\ readTime.value = 2

\* The estimate the component computes for a content sequence.
EstimateOf(content) ==
    ReadTimeOf(TotalWordsOf([defined |-> TRUE, hasData |-> TRUE,
                             hasContent |-> TRUE, content |-> content])).value

\* C7: the estimate is non-negative, it is 0 for the empty sequence, and it
\* is at least the estimate of every sequence the content extends.
C7_EstimateMonotone ==
    (postPc = "rendered" /\ post.hasContent) =>
        /\ readTime.value >= 0
        /\ (post.content = <<>> => readTime.value = 0)
        /\ \A k \in 0..(Len(post.content) - 1) :
              EstimateOf(SubSeq(post.content, 1, k)) <= readTime.value

\* C7 witness: a rendered post whose last block raised the estimate.
C7_Witness ==
    /\ postPc = "rendered"
    /\ Len(post.content) >= 2
    /\ EstimateOf(SubSeq(post.content, 1, Len(post.content) - 1)) < readTime.value

\* C8: when the post, its data or its content is undefined, the render
\* completes and shows the placeholder.
C8_MissingContentTolerated ==
    (postPc # "props" /\ (~post.defined \/ ~post.hasData \/ ~post.hasContent)) =>
        (postPc = "rendered" /\ label.kind = "Tempo de leitura")

Position(list, x) == CHOOSE k \in 1..Len(list) : list[k] = x

LinkTo(u) == [present |-> TRUE, title |-> Doc(u).data.title, href |-> <<"/post/", u>>]

\* C9: each side of the pagination is absent exactly when its query
\* returned no document; next is the document published right after the
\* current one and previous the one published right before it, without
\* wrap-around, each with its title and the link /post/<uid>.
C9_PaginationSides ==
    navPc = "done" =>
        LET k == Position(repository, slug)
            n == Len(repository)
        IN  /\ pagination.nextPage.present <=> Len(nextResults) > 0
            /\ pagination.prevPage.present <=> Len(prevResults) > 0
            /\ pagination.nextPage =
                  IF k < n THEN LinkTo(repository[k + 1]) ELSE NoSide
            /\ pagination.prevPage =
                  IF k > 1 THEN LinkTo(repository[k - 1]) ELSE NoSide

\* C9 witness: the newest of several posts: next is absent and previous is
\* populated.
C9_Witness ==
    /\ navPc = "done"
    /\ Len(repository) >= 2
    /\ repository[Len(repository)] = slug
    /\ ~pagination.nextPage.present
    /\ pagination.prevPage.present

\* The cursor the API returned together with its k-th page (the first page
\* is the one of getStaticProps).
RECURSIVE PageCursor(_)
PageCursor(k) ==
    IF k = 1 THEN postsPagination.next_page
    ELSE IF PageCursor(k - 1) = Null THEN Null
    ELSE backend[PageCursor(k - 1)].next_page

\* The API has a k-th page.
HasPage(k) == \A j \in 1..(k - 1) : PageCursor(j) # Null

RECURSIVE PagesUpTo(_)
PagesUpTo(k) ==
    IF k = 1 THEN postsPagination.results
    ELSE PagesUpTo(k - 1) \o addNewPosts(backend[PageCursor(k - 1)].results)

\* C10: against an API serving fixed pages, under every interleaving of
\* clicks and fetch completions the stored posts are the first k pages, each
\* once, and the stored cursor is the one returned with page k.
C10_StoredStateIsPagePrefix ==
    \E k \in 1..(MaxCursor + 1) :
        /\ HasPage(k)
        /\ posts = PagesUpTo(k)
        /\ nextPage = PageCursor(k)

\* C10 witness: after overlapping calls all settled, a page that a resolved
\* call had appended is no longer in the stored posts.
C10_Witness ==
    /\ overlap
    /\ \A i \in 1..Len(calls) : calls[i].status # "pending"
    /\ \E i \in 1..Len(calls) :
          /\ calls[i].status = "resolved"
          /\ Len(calls[i].posts) + Len(calls[i].response.results) > Len(posts)

====
